---- MODULE Spec2Model ----
(***************************************************************************)
(* Model of hoho: the ASCII banner lookup (hoho/ascii_art.py), the         *)
(* directory bootstrap (hoho/glb.py) and the release-asset acquisition     *)
(* pipeline (hoho/decompiler.py).                                          *)
(*                                                                         *)
(* Strings whose characters matter (asset names, platform tags, archive    *)
(* extensions) are sequences of one-character strings, so that str.lower,  *)
(* the `in` substring test and Path.suffix are computed, not assumed.      *)
(***************************************************************************)
EXTENDS Integers, Sequences, FiniteSets, TLC

(***************************************************************************)
(* Bounds of the model.                                                    *)
(***************************************************************************)
\* longest release asset list returned by the remote API
MaxAssets == 2
\* number of get_ok_face calls recorded
MaxCalls == 3
\* number of ensure_directories calls recorded
MaxEnsure == 2

(***************************************************************************)
(* str.lower, `needle in haystack`, Path.suffix                            *)
(***************************************************************************)
UpperChars == <<"A","B","C","D","E","F","G","H","I","J","K","L","M",
                "N","O","P","Q","R","S","T","U","V","W","X","Y","Z">>
LowerChars == <<"a","b","c","d","e","f","g","h","i","j","k","l","m",
                "n","o","p","q","r","s","t","u","v","w","x","y","z">>

LowerChar(c) ==
    IF \E i \in 1..Len(UpperChars) : UpperChars[i] = c
    THEN LowerChars[CHOOSE i \in 1..Len(UpperChars) : UpperChars[i] = c]
    ELSE c

\* str.lower()
Lower(s) == [i \in 1..Len(s) |-> LowerChar(s[i])]

\* `needle in haystack` on str
Contains(haystack, needle) ==
    \E i \in 0..(Len(haystack) - Len(needle)) :
        SubSeq(haystack, i + 1, i + Len(needle)) = needle

\* str.endswith, used only to state properties
EndsWith(s, tail) ==
    /\ Len(tail) <= Len(s)
    /\ SubSeq(s, Len(s) - Len(tail) + 1, Len(s)) = tail

\* pathlib.PurePath.suffix of a one-component name: the text from the last
\* dot on, empty when the last dot is the first or the last character
Suffix(name) ==
    LET dots == {i \in 1..Len(name) : name[i] = "."}
    IN  IF dots = {} THEN <<>>
        ELSE LET j == CHOOSE i \in dots : \A k \in dots : k <= i
             IN  IF 1 < j /\ j < Len(name) THEN SubSeq(name, j, Len(name))
                 ELSE <<>>

(***************************************************************************)
(* hoho/glb.py                                                             *)
(***************************************************************************)
Linux     == <<"l","i","n","u","x">>
Darwin    == <<"d","a","r","w","i","n">>
Win32     == <<"w","i","n","3","2">>
Universal == <<"u","n","i","v","e","r","s","a","l">>

\* CLI_AGENTS: the configured targets and their platform tags
Agents == {"claude-code", "openai-codex", "gemini-cli"}

AgentOrder == <<"claude-code", "openai-codex", "gemini-cli">>

Platforms(agent) ==
    IF agent = "claude-code" THEN <<Linux, Darwin, Win32>> ELSE <<Universal>>

\* DECOMPILER_TOOLS, by the name of the executable (cmd[0])
DECOMPILER_TOOLS == <<"strings", "objdump", "nm", "readelf", "hexdump">>

ExtTarGz == <<".","t","a","r",".","g","z">>
ExtZip   == <<".","z","i","p">>
ExtTar   == <<".","t","a","r">>
ExtTarXz == <<".","t","a","r",".","x","z">>
Ext7z    == <<".","7","z">>

ARCHIVE_EXTENSIONS == <<ExtTarGz, ExtZip, ExtTar, ExtTarXz, Ext7z>>

ExtractTools == {"ouch", "tar", "unzip"}
AnalysisTools == {DECOMPILER_TOOLS[i] : i \in 1..Len(DECOMPILER_TOOLS)}

(***************************************************************************)
(* hoho/ascii_art.py                                                       *)
(***************************************************************************)
\* the module-level names bound to a banner when ascii_art.py is imported
FaceGlobals == {"OK_FACE_SAITAMA", "OK_FACE_MEDIUM", "OK_FACE_SMALL",
                "OK_FACE_MINI", "OK_FACE_TEXT", "OK_FACE_DOTS"}

\* the dict literal of get_ok_face: key, and the global its value names
FaceTable == << <<"saitama", "OK_FACE_SAITAMA">>,
                <<"large",   "OK_FACE_LARGE">>,
                <<"medium",  "OK_FACE_MEDIUM">>,
                <<"small",   "OK_FACE_SMALL">>,
                <<"mini",    "OK_FACE_MINI">>,
                <<"text",    "OK_FACE_TEXT">>,
                <<"dots",    "OK_FACE_DOTS">> >>

FaceKeys == {FaceTable[i][1] : i \in 1..Len(FaceTable)}

\* the banner the table registers under a key
Registered(key) ==
    FaceTable[CHOOSE i \in 1..Len(FaceTable) : FaceTable[i][1] = key][2]

\* every call evaluates the whole dict literal first, so a name that is not
\* bound raises NameError whatever the size asked for
FaceAllBound(globals) ==
    \A i \in 1..Len(FaceTable) : FaceTable[i][2] \in globals

get_ok_face(size) ==
    IF ~ FaceAllBound(FaceGlobals)
    THEN [raised |-> "NameError", face |-> "none"]
    ELSE IF size \in FaceKeys
         THEN [raised |-> "no", face |-> Registered(size)]
         ELSE [raised |-> "no", face |-> "OK_FACE_SAITAMA"]

\* test_ascii.py: the sizes previewed; cli.home asks for "saitama"; "huge"
\* stands for a size the table does not know
TestSizes == <<"large", "medium", "small", "mini", "text", "dots">>
SizeInputs == {TestSizes[i] : i \in 1..Len(TestSizes)} \cup {"saitama", "huge"}

(***************************************************************************)
(* hoho/decompiler.py: extract_with_unpack_tools, decompile_binary         *)
(***************************************************************************)
\* what an archive may unpack to: a regular executable file, a regular
\* file without an executable bit, and a directory (xbits is the number of
\* executable permission bits set in st_mode
ArchiveEntries ==
    { [path |-> "bin/agent", isFile |-> TRUE,  xbits |-> 3],
      [path |-> "README",    isFile |-> TRUE,  xbits |-> 0],
      [path |-> "bin",       isFile |-> FALSE, xbits |-> 3] }

\* the extension looked for anywhere in the name, as the archive test of
\* process_cli_agent does, instead of compared with the suffix
ExtractToolBySubstring(archive, tools) ==
    IF "ouch" \in tools THEN "ouch"
    ELSE IF Contains(archive, ExtTarGz) THEN "tar"
    ELSE IF Contains(archive, ExtZip) THEN "unzip"
    ELSE "none"

\* the tool extract_with_unpack_tools invokes for an archive path
ExtractTool(archive, tools) ==
    IF "ouch" \in tools THEN "ouch"
    ELSE IF Suffix(archive) = ExtTarGz THEN "tar"
    ELSE IF Suffix(archive) = ExtZip THEN "unzip"
    ELSE "none"

\* extract_with_unpack_tools(archive_path, extract_to) on a host with the
\* given tools, when the invoked tool exits zero or not and leaves the
\* entries `produced` behind.  ret is "True", "False" or the exception
\* that leaves the function.
ExtractWithUnpackTools(archive, tools, exitZero, produced) ==
    LET tool == ExtractTool(archive, tools)
    IN  IF tool = "none"
        THEN [invoked |-> "none", ret |-> "False", files |-> {}]
        ELSE IF tool \notin tools
        THEN [invoked |-> tool, ret |-> "FileNotFoundError", files |-> {}]
        ELSE IF exitZero
        THEN [invoked |-> tool, ret |-> "True", files |-> produced]
        ELSE [invoked |-> tool, ret |-> "False", files |-> produced]

\* a loop that a failing tool ends
RECURSIVE DecompileLoopStops(_, _, _, _)
DecompileLoopStops(i, tools, exits, acc) ==
    IF i > Len(DECOMPILER_TOOLS) THEN acc
    ELSE LET cmd == DECOMPILER_TOOLS[i]
         IN  IF cmd \notin tools
             THEN DecompileLoopStops(i + 1, tools, exits, acc)
             ELSE IF exits[cmd]
             THEN DecompileLoopStops(i + 1, tools, exits,
                      [acc EXCEPT !.files = @ \cup {cmd},
                                  !.ran = Append(@, cmd)])
             ELSE [acc EXCEPT !.ran = Append(@, cmd)]

\* the loop of decompile_binary from tool i on; acc.files is the content of
\* the output directory, acc.ran the tools executed so far
RECURSIVE DecompileLoop(_, _, _, _)
DecompileLoop(i, tools, exits, acc) ==
    IF i > Len(DECOMPILER_TOOLS) THEN acc
    ELSE LET cmd == DECOMPILER_TOOLS[i]
         IN  IF cmd \notin tools
             THEN DecompileLoop(i + 1, tools, exits, acc)
             ELSE IF exits[cmd]
             THEN DecompileLoop(i + 1, tools, exits,
                      [acc EXCEPT !.files = @ \cup {cmd},
                                  !.ran = Append(@, cmd)])
             ELSE DecompileLoop(i + 1, tools, exits,
                      [acc EXCEPT !.ran = Append(@, cmd)])

\* decompile_binary(binary_path, output_dir): exits[t] tells whether tool t
\* exits zero on this binary
DecompileBinary(tools, exits, outDir) ==
    LET acc == DecompileLoop(1, tools, exits, [files |-> outDir, ran |-> <<>>])
    IN  [ret |-> "True", files |-> acc.files, ran |-> acc.ran]

(***************************************************************************)
(* hoho/decompiler.py: process_cli_agent                                   *)
(***************************************************************************)
\* any(platform in asset_name for platform in config["platforms"]), where
\* asset_name is the lower-cased name
Matches(agent, name) ==
    \E k \in 1..Len(Platforms(agent)) :
        Contains(Lower(name), Platforms(agent)[k])

\* any(ext in asset_name for ext in ARCHIVE_EXTENSIONS)
IsArchive(name) ==
    \E k \in 1..Len(ARCHIVE_EXTENSIONS) :
        Contains(Lower(name), ARCHIVE_EXTENSIONS[k])

\* the for loop over the assets, from index `from` on: the index of the next
\* asset that passes the platform test, 0 when the loop runs to its end
NextMatch(agent, assets, from) ==
    LET hits == {j \in from..Len(assets) : Matches(agent, assets[j])}
    IN  IF hits = {} THEN 0
        ELSE CHOOSE j \in hits : \A k \in hits : j <= k

\* a locator that forgets the permission bits
IsCandidateAnyFile(entry) == entry.isFile

\* binary.is_file() and binary.stat().st_mode & 0o111
IsCandidate(entry) == entry.isFile /\ entry.xbits > 0

Event(op, i, ok, arg) == [op |-> op, asset |-> i, ok |-> ok, arg |-> arg]

\* for binary in extract_dir.rglob("*"): decompile_binary on each candidate;
\* exitsOf[path] gives the exit of every tool on that binary
RECURSIVE AnalyseExtracted(_, _, _, _, _)
AnalyseExtracted(cands, i, tools, exitsOf, st) ==
    IF cands = {} THEN st
    ELSE LET b == CHOOSE e \in cands : TRUE
             d == DecompileBinary(tools, exitsOf[b.path], st.analysis)
         IN  AnalyseExtracted(cands \ {b}, i, tools, exitsOf,
                 [st EXCEPT !.analysis = d.files,
                            !.log = Append(@, Event("analyse", i, d.ret, b.path))])

\* what may happen to a download: the body arrives and is written, the
\* request fails, or writing the file fails
DownloadOutcomes == {"ok", "transport_error", "write_error"}

\* a handler that covers the request only: a failed write leaves the function
DownloadBinaryWriteEscapes(outcome) ==
    IF outcome = "ok" THEN "True"
    ELSE IF outcome = "transport_error" THEN "False"
    ELSE "OSError"

\* download_binary(url, output_path): its return value ("True", "False"),
\* or the exception that leaves it; except Exception covers both failures
DownloadBinary(outcome) ==
    IF outcome = "ok" THEN "True" ELSE "False"

\* the body of the loop for a matching asset, once its download has ended
\* with `outcome`: st holds the target's log, extracted/ and analysis/;
\* st.raised tells that an exception left the loop
ProcessAsset(i, name, outcome, tools, exitZero, produced, exitsOf, st) ==
    LET dl  == DownloadBinary(outcome)
        st1 == [st EXCEPT !.log = Append(@, Event("download", i, dl, outcome))]
    IN  IF dl = "False" THEN st1
        ELSE IF dl # "True" THEN [st1 EXCEPT !.raised = TRUE]
        ELSE IF IsArchive(name)
        THEN LET ex  == ExtractWithUnpackTools(name, tools, exitZero, produced)
                 st2 == [st1 EXCEPT
                            !.log = Append(@, Event("extract", i, ex.ret, ex.invoked)),
                            !.extracted = @ \cup ex.files]
             IN  IF ex.ret = "True"
                 THEN AnalyseExtracted({e \in st2.extracted : IsCandidate(e)},
                                       i, tools, exitsOf, st2)
                 ELSE IF ex.ret = "False" THEN st2
                 ELSE [st2 EXCEPT !.raised = TRUE]
        ELSE LET d == DecompileBinary(tools, exitsOf["asset"], st1.analysis)
             IN  [st1 EXCEPT !.analysis = d.files,
                             !.log = Append(@, Event("analyse", i, d.ret, "asset"))]

\* a count of every result gather collected, True or not
SuccessCountAnyResult(results) ==
    Cardinality({a \in DOMAIN results : results[a] # "none"})

\* sum(1 for r in results if r is True)
SuccessCount(results) ==
    Cardinality({a \in DOMAIN results : results[a] = "True"})

(***************************************************************************)
(* Inputs: the asset names a release may list, the releases the remote API *)
(* may return, the hosts.                                                  *)
(***************************************************************************)
Dash == <<"-">>
\* linux-universal.zip
AssetZip    == Linux \o Dash \o Universal \o ExtZip
\* Darwin.tar.gz
AssetTarGz  == <<"D","a","r","w","i","n">> \o ExtTarGz
\* win32-universal
AssetRaw    == Win32 \o Dash \o Universal
\* src.zip
AssetSrc    == <<"s","r","c">> \o ExtZip
\* linux.ZIP
AssetUpper  == Linux \o <<".","Z","I","P">>

Catalog == {AssetZip, AssetTarGz, AssetRaw, AssetSrc}

RECURSIVE SeqsUpTo(_, _)
SeqsUpTo(S, n) ==
    IF n = 0 THEN {<<>>}
    ELSE LET shorter == SeqsUpTo(S, n - 1)
         IN  shorter \cup {Append(q, x) : q \in shorter, x \in S}

\* what GET /repos/<repo>/releases/latest yields: an exception, or a body
\* whose "assets" (absent: the empty list) name the assets
Releases(names, n) ==
    {[raises |-> TRUE, assets |-> <<>>]}
    \cup {[raises |-> FALSE, assets |-> q] : q \in SeqsUpTo(names, n)}

\* the answers of the API when all the targets run at once: a failure, a
\* release without assets, one archive, one plain binary
ServedAll ==
    { [raises |-> TRUE,  assets |-> <<>>],
      [raises |-> FALSE, assets |-> <<>>],
      [raises |-> FALSE, assets |-> <<AssetZip>>],
      [raises |-> FALSE, assets |-> <<AssetRaw>>] }

\* hosts of the pipeline runs: no extraction tool, the universal one, tar
\* alone, tar and unzip; with or without an analysis tool
PipelineHosts ==
    {e \cup a : e \in {{}, {"ouch"}, {"tar"}, {"tar", "unzip"}},
                a \in {{}, {"strings"}}}

VARIABLES
    host,         \* the executables shutil.which finds on PATH
    payload,      \* the entries the published archives hold
    served,       \* the bodies the releases API may answer with
    release,      \* release[a]: release_data of a's coroutine
    mainPc,       \* position of the command being run
    tasks,        \* the targets a process_cli_agent coroutine was made for
    pc,           \* pc[a]: position of a's process_cli_agent coroutine
    idx,          \* idx[a]: index of the asset whose download is awaited
    result,       \* result[a]: what a's coroutine returned
    st,           \* st[a]: log of steps, content of extracted/ and analysis/
    successCount, \* the count decompile_all reports
    printed,      \* results of the get_ok_face calls made
    call,         \* the last direct call of extract_with_unpack_tools or
                  \* decompile_binary, with its result
    fs,           \* kind of each path ensure_directories touches
    ensured       \* results of the ensure_directories calls made

vars == <<host, payload, served, release, mainPc, tasks, pc, idx, result, st,
          successCount, printed, call, fs, ensured>>

NoCall == [fn |-> "none"]
EmptySt == [log |-> <<>>, extracted |-> {}, analysis |-> {}, raised |-> FALSE]

PipeInit ==
    /\ mainPc = "cmd"
    /\ tasks = {}
    /\ release = [a \in Agents |-> [raises |-> FALSE, assets |-> <<>>]]
    /\ pc = [a \in Agents |-> "idle"]
    /\ idx = [a \in Agents |-> 0]
    /\ result = [a \in Agents |-> "none"]
    /\ st = [a \in Agents |-> EmptySt]
    /\ successCount = -1

\* the coroutine of a returns value r
Return(a, r) ==
    /\ pc' = [pc EXCEPT ![a] = "done"]
    /\ result' = [result EXCEPT ![a] = r]

\* the loop moves on from index `from`: it awaits the download of the next
\* matching asset, or ends and the coroutine returns True
Advance(a, from) ==
    LET j == NextMatch(a, release[a].assets, from)
    IN  IF j = 0
        THEN Return(a, "True") /\ idx' = [idx EXCEPT ![a] = 0]
        ELSE /\ idx' = [idx EXCEPT ![a] = j]
             /\ pc' = [pc EXCEPT ![a] = "download"]
             /\ UNCHANGED result

\* decompile_single(agent)
DecompileSingle(agent) ==
    /\ mainPc = "cmd"
    /\ IF agent \notin Agents
       THEN /\ mainPc' = "exited"
            /\ UNCHANGED <<tasks, pc>>
       ELSE /\ mainPc' = "single"
            /\ tasks' = {agent}
            /\ pc' = [pc EXCEPT ![agent] = "fetch"]
    /\ UNCHANGED <<host, payload, served, release, idx, result, st, successCount,
                   printed, call, fs, ensured>>

\* decompile_all, up to asyncio.gather: one coroutine per target, each run
\* to its first await
DecompileAllStart ==
    /\ mainPc = "cmd"
    /\ mainPc' = "gather"
    /\ tasks' = Agents
    /\ pc' = [a \in Agents |-> "fetch"]
    /\ UNCHANGED <<host, payload, served, release, idx, result, st, successCount,
                   printed, call, fs, ensured>>

\* process_cli_agent resumes from await fetch_github_releases
FetchReturns(a) ==
    /\ a \in tasks
    /\ pc[a] = "fetch"
    /\ \E r \in served :
          /\ release' = [release EXCEPT ![a] = r]
          /\ IF r.raises
             THEN Return(a, "False") /\ UNCHANGED idx
             ELSE LET j == NextMatch(a, r.assets, 1)
                  IN  IF j = 0
                      THEN Return(a, "True") /\ UNCHANGED idx
                      ELSE /\ idx' = [idx EXCEPT ![a] = j]
                           /\ pc' = [pc EXCEPT ![a] = "download"]
                           /\ UNCHANGED result
    /\ UNCHANGED <<host, payload, served, mainPc, tasks, st, successCount,
                   printed, call, fs, ensured>>

\* the outcomes the environment may give the steps that follow a download:
\* the exit and the output of the extraction tool matter only for an archive
\* that was downloaded, the exits of the analysis tools only after a download
ExitChoices(ok, archive) ==
    IF ok /\ archive THEN BOOLEAN ELSE {TRUE}

ProducedChoices(ok, archive, exitZero, content) ==
    IF ok /\ archive
    THEN (IF exitZero THEN {content} ELSE SUBSET content)
    ELSE {{}}

BinaryPaths == {e.path : e \in {x \in ArchiveEntries : IsCandidate(x)}} \cup {"asset"}

AnalysisExitChoices(ok, tools) ==
    IF ok THEN [BinaryPaths -> [tools \cap AnalysisTools -> BOOLEAN]]
    ELSE {[p \in BinaryPaths |-> [t \in tools \cap AnalysisTools |-> TRUE]]}

\* process_cli_agent resumes from await download_binary and runs up to its
\* next await or its return
DownloadReturns(a) ==
    /\ a \in tasks
    /\ pc[a] = "download"
    /\ LET name == release[a].assets[idx[a]]
           arch == IsArchive(name)
       IN  \E outcome \in DownloadOutcomes :
           \E exitZero \in ExitChoices(outcome = "ok", arch) :
           \E produced \in ProducedChoices(outcome = "ok", arch, exitZero, payload) :
           \E exitsOf \in AnalysisExitChoices(outcome = "ok", host) :
              LET new == ProcessAsset(idx[a], name, outcome, host,
                                      exitZero, produced, exitsOf, st[a])
              IN  /\ st' = [st EXCEPT ![a] = new]
                  /\ IF new.raised
                     THEN Return(a, "False") /\ UNCHANGED idx
                     ELSE Advance(a, idx[a] + 1)
    /\ UNCHANGED <<host, payload, served, release, mainPc, tasks, successCount,
                   printed, call, fs, ensured>>

\* decompile_single: asyncio.run returns
SingleExit ==
    /\ mainPc = "single"
    /\ \A a \in tasks : pc[a] = "done"
    /\ mainPc' = "exited"
    /\ UNCHANGED <<host, payload, served, release, tasks, pc, idx, result, st,
                   successCount, printed, call, fs, ensured>>

\* decompile_all: gather has every result; the completion report
Report ==
    /\ mainPc = "gather"
    /\ \A a \in tasks : pc[a] = "done"
    /\ successCount' = SuccessCount(result)
    /\ mainPc' = "reported"
    /\ UNCHANGED <<host, payload, served, release, tasks, pc, idx, result, st,
                   printed, call, fs, ensured>>

(***************************************************************************)
(* hoho/glb.py: ensure_directories                                         *)
(***************************************************************************)
DECOMP_DIR == <<"decomp">>
CACHE_DIR  == <<".cache">>
TEMP_DIR   == <<".tmp">>

\* CLI_AGENTS[agent]["output_dir"]
OutputDir(agent) == Append(DECOMP_DIR, agent)

\* the directories ensure_directories makes, in the order it makes them
EnsureList ==
    <<DECOMP_DIR, CACHE_DIR, TEMP_DIR>>
    \o [i \in 1..Len(AgentOrder) |-> OutputDir(AgentOrder[i])]

Paths == {EnsureList[i] : i \in 1..Len(EnsureList)}

Parent(path) == SubSeq(path, 1, Len(path) - 1)

\* mkdir without exist_ok: a path that exists is an error
RECURSIVE MkdirNoExistOk(_, _)
MkdirNoExistOk(f, path) ==
    IF path = <<>> THEN [fs |-> f, raised |-> "no"]
    ELSE IF f[path] # "absent" THEN [fs |-> f, raised |-> "FileExistsError"]
    ELSE LET up == IF Parent(path) = <<>> \/ f[Parent(path)] = "dir"
                   THEN [fs |-> f, raised |-> "no"]
                   ELSE MkdirNoExistOk(f, Parent(path))
         IN  IF up.raised # "no"
             THEN [fs |-> f, raised |-> "NotADirectoryError"]
             ELSE [fs |-> [up.fs EXCEPT ![path] = "dir"], raised |-> "no"]

\* Path.mkdir(exist_ok=True, parents=True) on the file system f, where
\* PROJECT_ROOT (the empty path) is a directory
RECURSIVE Mkdir(_, _)
Mkdir(f, path) ==
    IF path = <<>> \/ f[path] = "dir" THEN [fs |-> f, raised |-> "no"]
    ELSE IF f[path] = "file" THEN [fs |-> f, raised |-> "FileExistsError"]
    ELSE LET up == Mkdir(f, Parent(path))
         IN  IF up.raised # "no"
             THEN [fs |-> f, raised |-> "NotADirectoryError"]
             ELSE [fs |-> [up.fs EXCEPT ![path] = "dir"], raised |-> "no"]

\* the two loops of ensure_directories from position i on
RECURSIVE EnsureFrom(_, _)
EnsureFrom(i, f) ==
    IF i > Len(EnsureList) THEN [fs |-> f, raised |-> "no"]
    ELSE LET m == Mkdir(f, EnsureList[i])
         IN  IF m.raised # "no" THEN m ELSE EnsureFrom(i + 1, m.fs)

EnsureDirectories(f) == EnsureFrom(1, f)

\* a path exists only inside a directory
WellFormed(f) ==
    \A p \in Paths : Len(p) > 1 /\ f[p] # "absent" => f[Parent(p)] = "dir"

\* ensure_directories(), called by setup and by CliDecompiler.__init__
EnsureCall ==
    /\ Len(ensured) < MaxEnsure
    /\ LET r == EnsureDirectories(fs)
       IN  /\ fs' = r.fs
           /\ ensured' = Append(ensured,
                 [before |-> fs, after |-> r.fs, raised |-> r.raised])
    /\ UNCHANGED <<host, payload, served, release, mainPc, tasks, pc, idx,
                   result, st, successCount, printed, call>>

\* agent_dir.mkdir(exist_ok=True, parents=True) at the head of
\* process_cli_agent, the one place of the pipeline that touches these paths
AgentDirMkdir(a) ==
    /\ fs' = Mkdir(fs, OutputDir(a)).fs
    /\ fs' # fs
    /\ UNCHANGED <<host, payload, served, release, mainPc, tasks, pc, idx,
                   result, st, successCount, printed, call, ensured>>

(***************************************************************************)
(* Direct calls of the functions                                           *)
(***************************************************************************)
\* archive paths handed to extract_with_unpack_tools
ArchiveNames ==
    Catalog \cup { AssetUpper, <<"a">> \o ExtTar, <<"a">> \o ExtTarXz, <<"a">> \o Ext7z,
                   <<"a">> \o ExtZip \o Dash \o Linux,
                   <<"a",".","r","a","r">> }

ExtractCall ==
    \E archive \in ArchiveNames, exitZero \in BOOLEAN :
    \E produced \in (IF exitZero THEN {payload} ELSE SUBSET payload) :
       call' = [fn |-> "extract", archive |-> archive, exitZero |-> exitZero,
                out |-> ExtractWithUnpackTools(archive, host, exitZero, produced)]
    /\ UNCHANGED <<host, payload, served, release, mainPc, tasks, pc, idx,
                   result, st, successCount, printed, fs, ensured>>

DecompileCall ==
    \E exits \in [host \cap AnalysisTools -> BOOLEAN],
       before \in {{}, {"nm"}} :
       call' = [fn |-> "decompile", before |-> before, exits |-> exits,
                out |-> DecompileBinary(host, exits, before)]
    /\ UNCHANGED <<host, payload, served, release, mainPc, tasks, pc, idx,
                   result, st, successCount, printed, fs, ensured>>

\* print(get_ok_face(size)) in test_ascii.py, console.print in cli.home
FaceCall(size) ==
    /\ Len(printed) < MaxCalls
    /\ printed' = Append(printed, [size |-> size, out |-> get_ok_face(size)])
    /\ UNCHANGED <<host, payload, served, release, mainPc, tasks, pc, idx,
                   result, st, successCount, call, fs, ensured>>

(***************************************************************************)
(* Specifications                                                          *)
(***************************************************************************)
RestInit ==
    /\ printed = <<>>
    /\ call = NoCall
    /\ fs = [p \in Paths |-> "dir"]
    /\ ensured = <<>>

\* decompile_single on any host and any release
Init ==
    /\ host \in PipelineHosts
    /\ payload = ArchiveEntries
    /\ served = Releases(Catalog, MaxAssets)
    /\ PipeInit
    /\ RestInit

Next ==
    \/ \E agent \in Agents \cup {"unknown"} : DecompileSingle(agent)
    \/ \E a \in Agents : FetchReturns(a)
    \/ \E a \in Agents : DownloadReturns(a)
    \/ SingleExit

Spec == Init /\ [][Next]_vars

\* decompile_all: the three coroutines interleave at their awaits
InitAll ==
    /\ host \in SUBSET {"ouch", "unzip", "strings"}
    /\ payload = {e \in ArchiveEntries : IsCandidate(e)}
    /\ served = ServedAll
    /\ PipeInit
    /\ RestInit

NextAll ==
    \/ DecompileAllStart
    \/ \E a \in Agents : FetchReturns(a)
    \/ \E a \in Agents : DownloadReturns(a)
    \/ Report

SpecAll == InitAll /\ [][NextAll]_vars

\* extract_with_unpack_tools on every host
InitExtract ==
    /\ host \in SUBSET ExtractTools
    /\ payload = ArchiveEntries
    /\ served = {}
    /\ PipeInit
    /\ RestInit

NextExtract == ExtractCall

SpecExtract == InitExtract /\ [][NextExtract]_vars

\* decompile_binary on every host
InitAnalysis ==
    /\ host \in SUBSET AnalysisTools
    /\ payload = {}
    /\ served = {}
    /\ PipeInit
    /\ RestInit

NextAnalysis == DecompileCall

SpecAnalysis == InitAnalysis /\ [][NextAnalysis]_vars

\* ensure_directories from every state of the project root
InitDirs ==
    /\ host = {}
    /\ payload = {}
    /\ served = {}
    /\ PipeInit
    /\ printed = <<>>
    /\ call = NoCall
    /\ fs \in {f \in [Paths -> {"absent", "dir", "file"}] : WellFormed(f)}
    /\ ensured = <<>>

NextDirs ==
    \/ EnsureCall
    \/ \E a \in Agents : AgentDirMkdir(a)

SpecDirs == InitDirs /\ [][NextDirs]_vars

\* get_ok_face
InitFace ==
    /\ host = {}
    /\ payload = {}
    /\ served = {}
    /\ PipeInit
    /\ RestInit

NextFace == \E size \in SizeInputs : FaceCall(size)

SpecFace == InitFace /\ [][NextFace]_vars

(***************************************************************************)
(* Properties                                                              *)
(***************************************************************************)
Log(a) == st[a].log
Assets(a) == release[a].assets
HasEvent(a, op, i) ==
    \E p \in 1..Len(Log(a)) : Log(a)[p].op = op /\ Log(a)[p].asset = i
HasEventBefore(a, op, i, ok, p) ==
    \E q \in 1..(p - 1) :
        Log(a)[q].op = op /\ Log(a)[q].asset = i /\ Log(a)[q].ok = ok
IsDownload(e) == e.op = "download"

\* a platform tag is a case-insensitive substring of the name
TagInName(agent, name) ==
    \E k \in 1..Len(Platforms(agent)) :
        Contains(Lower(name), Lower(Platforms(agent)[k]))

\* C1: when process_cli_agent has ended on a fetched release, the assets a
\* download was attempted for are exactly those whose name holds a platform
\* tag as a case-insensitive substring, attempted in release order.
C1_SelectedIffTagInName ==
    \A a \in tasks :
        pc[a] = "done" /\ ~release[a].raises =>
            LET dls == SelectSeq(Log(a), IsDownload)
            IN  /\ {dls[k].asset : k \in 1..Len(dls)}
                     = {i \in 1..Len(Assets(a)) : TagInName(a, Assets(a)[i])}
                /\ \A k \in 1..(Len(dls) - 1) : dls[k].asset < dls[k + 1].asset

\* C2: decompile_all runs one task per configured target and cannot stop
\* short of its completion report (whatever the failures of the tasks, a
\* step remains possible until the report); it reports only when every task
\* has ended, with a success count equal to the number of tasks that
\* returned True.
C2_GatherReportsAll ==
    /\ mainPc # "reported" => ENABLED NextAll
    /\ mainPc = "gather" => tasks = Agents
    /\ mainPc = "reported" =>
          /\ tasks = Agents
          /\ \A a \in Agents : pc[a] = "done" /\ result[a] \in {"True", "False"}
          /\ successCount = Cardinality({a \in Agents : result[a] = "True"})

C2_Witness ==
    /\ mainPc = "reported"
    /\ \E a, b, c \in Agents :
          /\ result[a] = "False" /\ release[a].raises
          /\ result[b] = "False" /\ st[b].raised
          /\ result[c] = "True" /\ HasEvent(c, "analyse", 1)

\* C3: download_binary returns True exactly when the body was written and
\* False on a transport or write failure, never an exception; after a False
\* the asset is neither extracted nor analysed and the loop goes on to the
\* next matching asset (or, there being none, returns True).
C3_DownloadFailureSkipsAsset ==
    \A a \in tasks : \A p \in 1..Len(Log(a)) :
        LET e == Log(a)[p]
            j == NextMatch(a, Assets(a), e.asset + 1)
        IN  e.op = "download" =>
              /\ e.ok \in {"True", "False"}
              /\ (e.ok = "True") <=> (e.arg = "ok")
              /\ e.ok = "False" =>
                   /\ ~HasEvent(a, "extract", e.asset)
                   /\ ~HasEvent(a, "analyse", e.asset)
                   /\ IF j = 0
                      THEN p = Len(Log(a)) /\ pc[a] = "done" /\ result[a] = "True"
                      ELSE \/ HasEvent(a, "download", j)
                           \/ pc[a] = "download" /\ idx[a] = j

C3_Witness ==
    \E a \in tasks : \E p \in 1..Len(Log(a)) : \E q \in (p + 1)..Len(Log(a)) :
        /\ Log(a)[p].op = "download" /\ Log(a)[p].arg = "write_error"
        /\ Log(a)[q].op = "download" /\ Log(a)[q].asset > Log(a)[p].asset

\* C4: extract_with_unpack_tools uses ouch whenever it is present; without
\* ouch it extracts a name ending in .tar.gz with tar and a name ending in
\* .zip with unzip; it returns True when the invoked tool exits zero.
C4_StrategyByExtension ==
    call.fn = "extract" =>
        /\ "ouch" \in host => call.out.invoked = "ouch"
        /\ "ouch" \notin host /\ EndsWith(call.archive, ExtTarGz)
              => call.out.invoked = "tar"
        /\ "ouch" \notin host /\ EndsWith(call.archive, ExtZip)
              => call.out.invoked = "unzip"
        /\ call.out.invoked \in host /\ call.exitZero => call.out.ret = "True"

\* the extension of the path is neither .tar.gz nor .zip
Unrecognised(archive) ==
    ~EndsWith(archive, ExtTarGz) /\ ~EndsWith(archive, ExtZip)

NothingExtracted ==
    /\ call.out.ret = "False"
    /\ call.out.invoked = "none"
    /\ call.out.files = {}

\* C5 (as stated): for an archive path with an unrecognised extension, on
\* every host, extract_with_unpack_tools returns False, invokes no tool and
\* produces no file.
C5_UnrecognisedFailsOnEveryHost ==
    call.fn = "extract" /\ Unrecognised(call.archive) => NothingExtracted

\* C5 (amended): for an archive path with an unrecognised extension, on every
\* host without ouch, extract_with_unpack_tools returns False, invokes no
\* tool and produces no file.
C5_UnrecognisedFailsWithoutOuch ==
    call.fn = "extract" /\ Unrecognised(call.archive) /\ "ouch" \notin host
        => NothingExtracted

C5_Witness ==
    /\ call.fn = "extract"
    /\ Contains(call.archive, ExtZip)
    /\ Unrecognised(call.archive)
    /\ host = {"tar", "unzip"}
    /\ call.out.ret = "False"

\* C6: decompile_binary on an empty output directory returns without
\* raising, leaves an output file for a tool exactly when the tool is
\* present and exited zero, and runs every present tool, in list order,
\* whatever the exits of the tools before it.
C6_OneFilePerSucceedingTool ==
    call.fn = "decompile" /\ call.before = {} =>
        /\ call.out.ret = "True"
        /\ call.out.files = {t \in host \cap AnalysisTools : call.exits[t]}
        /\ call.out.ran
             = SelectSeq(DECOMPILER_TOOLS, LAMBDA t : t \in host)

C6_Witness ==
    /\ call.fn = "decompile" /\ call.before = {}
    /\ host = AnalysisTools
    /\ ~call.exits["strings"] /\ ~call.exits["nm"]
    /\ call.out.files = {"objdump", "readelf", "hexdump"}

\* C7: when the extraction or the analysis of a matching asset has been
\* tried, whatever its result, every later matching asset of the target has
\* been downloaded by the time process_cli_agent ends.
C7_FailureIsLocalToItsAsset ==
    \A a \in tasks : \A p \in 1..Len(Log(a)) :
        pc[a] = "done" /\ Log(a)[p].op \in {"extract", "analyse"} =>
            \A j \in (Log(a)[p].asset + 1)..Len(Assets(a)) :
                Matches(a, Assets(a)[j]) => HasEvent(a, "download", j)

\* C8: once a call of ensure_directories has returned, every later call
\* returns without error and changes nothing, and every configured target
\* has its own destination directory.
C8_EnsureIdempotent ==
    \A k \in 1..Len(ensured) :
        (\E j \in 1..(k - 1) : ensured[j].raised = "no") =>
            /\ ensured[k].raised = "no"
            /\ ensured[k].after = ensured[k].before
            /\ \A a \in Agents : ensured[k].after[OutputDir(a)] = "dir"
            /\ \A a, b \in Agents : OutputDir(a) = OutputDir(b) => a = b

C8_Witness ==
    /\ Len(ensured) >= 2
    /\ ensured[1].raised = "no"
    /\ \A x \in Paths : ensured[1].before[x] = "absent"
    /\ ensured[2].raised = "no"

\* C9: every call of get_ok_face returns without raising, the banner
\* registered under the size when the size is known and the Saitama banner
\* otherwise.
C9_FaceForEverySize ==
    \A k \in 1..Len(printed) :
        /\ printed[k].out.raised = "no"
        /\ printed[k].out.face
             = (IF printed[k].size \in FaceKeys
                THEN Registered(printed[k].size)
                ELSE "OK_FACE_SAITAMA")

\* C10: decompile_binary runs for an asset only after that asset's download
\* returned True; for an archive only after its extraction returned True,
\* and on a regular file of the extraction directory with an executable
\* bit; for another asset on the downloaded file, without any extraction.
C10_StepsInPipelineOrder ==
    \A a \in tasks : \A p \in 1..Len(Log(a)) :
        LET e == Log(a)[p]
        IN  /\ e.op = "extract" =>
                 HasEventBefore(a, "download", e.asset, "True", p)
            /\ e.op = "analyse" =>
                 /\ HasEventBefore(a, "download", e.asset, "True", p)
                 /\ IF IsArchive(Assets(a)[e.asset])
                    THEN /\ HasEventBefore(a, "extract", e.asset, "True", p)
                         /\ \E f \in st[a].extracted :
                               f.path = e.arg /\ f.isFile /\ f.xbits > 0
                    ELSE /\ e.arg = "asset"
                         /\ ~HasEvent(a, "extract", e.asset)

C10_Witness ==
    \E a \in tasks : \E p, q \in 1..Len(Log(a)) :
        /\ Log(a)[p].op = "analyse" /\ Log(a)[p].arg = "bin/agent"
        /\ Log(a)[q].op = "analyse" /\ Log(a)[q].arg = "asset"
        /\ \E f \in st[a].extracted : f.path = "README"

====
